---------------------------- MODULE Spec2Model ----------------------------
(***************************************************************************)
(* Luxeloom chatbot backend (src/chatbot_backend.py).                      *)
(*                                                                         *)
(* Python strings are TLA+ strings; a character is a string of length 1.   *)
(* The chatbot object is the record [conversation_history |-> <<...>>];    *)
(* product_data, responses and max_history never change after __init__    *)
(* and are constants of the module.                                        *)
(***************************************************************************)
EXTENDS Integers, Sequences, FiniteSets, TLC

VARIABLES
    chatbot,     \* the module-level LuxeloomChatbot instance (line 160)
    other,       \* a second LuxeloomChatbot instance (SpecPair only)
    received,    \* every query handle_query was called with since Init, oldest first
    response,    \* what the last operation returned
    otherResponse, \* what the last handle_query on `other` returned
    called,      \* the last operation that ran ("" before the first)
    input,       \* its argument
    output,      \* a second result of it: preprocess_text(input) while it is
                 \* normalized again, the pass find_product returned from
    heap,        \* SpecConc: the list objects, by identity
    threads,     \* SpecConc: each request thread's place in handle_query and locals
    calls        \* SpecConc: the handle_query calls begun, oldest first

vars == <<chatbot, other, received, response, otherResponse, called, input, output,
          heap, threads, calls>>

\* the variables only SpecConc changes
conc == <<heap, threads, calls>>

(***************************************************************************)
(* Characters.                                                             *)
(***************************************************************************)
LowerLetters == "abcdefghijklmnopqrstuvwxyz"
UpperLetters == "ABCDEFGHIJKLMNOPQRSTUVWXYZ"
Digits == "0123456789"

Char(s, i) == SubSeq(s, i, i)

InString(c, s) == \E i \in 1..Len(s) : Char(s, i) = c

\* str.lower() on one character
LowerChar(c) ==
    IF InString(c, UpperLetters)
    THEN Char(LowerLetters, CHOOSE i \in 1..Len(UpperLetters) : Char(UpperLetters, i) = c)
    ELSE c

\* the regex class \w : letters, digits and the underscore
IsWord(c) == InString(c, LowerLetters) \/ InString(c, UpperLetters)
             \/ InString(c, Digits) \/ c = "_"

\* the regex class \s, and the characters str.strip() removes
IsSpace(c) == c \in {" ", "\t", "\n"}

(***************************************************************************)
(* preprocess_text (lines 93-95):                                          *)
(*     re.sub(r'[^\w\s]', '', text.lower().strip())                        *)
(***************************************************************************)
RECURSIVE lower(_)
lower(s) == IF s = "" THEN "" ELSE LowerChar(Char(s, 1)) \o lower(Tail(s))

RECURSIVE lstrip(_)
lstrip(s) == IF s /= "" /\ IsSpace(Char(s, 1)) THEN lstrip(Tail(s)) ELSE s

RECURSIVE rstrip(_)
rstrip(s) ==
    IF s /= "" /\ IsSpace(Char(s, Len(s)))
    THEN rstrip(SubSeq(s, 1, Len(s) - 1))
    ELSE s

strip(s) == rstrip(lstrip(s))

\* re.sub(r'[^\w\s]', '', s): every character that is neither \w nor \s is dropped
RECURSIVE re_sub_nonword(_)
re_sub_nonword(s) ==
    IF s = "" THEN ""
    ELSE (IF IsWord(Char(s, 1)) \/ IsSpace(Char(s, 1)) THEN Char(s, 1) ELSE "")
         \o re_sub_nonword(Tail(s))

preprocess_text(text) == re_sub_nonword(strip(lower(text)))


(***************************************************************************)
(* __init__ (lines 19-91).  product_data is a dict: its items are listed   *)
(* in insertion order.  The two Strawberry Miffi entries are equal records.*)
(***************************************************************************)
Product(name, description) ==
    [name |-> name, price |-> "PKR 2,125", original_price |-> "PKR 2,500",
     discount |-> "15% OFF", description |-> description,
     whatsapp |-> "+92 307 4674619"]

product_data ==
    << [key |-> "snoopy tote",
        value |-> Product("Snoopy Tote", "Tote bag for all the snoopy lovers")],
       [key |-> "sunny tote",
        value |-> Product("Sunny Tote", "Sunny tote! took ages but worth it")],
       [key |-> "strawberry miffi tote",
        value |-> Product("Strawberry Miffi Tote", "Watch how this strawberry miffy tote bag came together!")],
       [key |-> "miffy",
        value |-> Product("Strawberry Miffi Tote", "Watch how this strawberry miffy tote bag came together!")] >>

\* Python's None, as find_product returns it
None == Product("", "")

max_history == 5

\* self.responses, each template cut to its opening words
responses ==
    [greeting |-> << "Hello! Welcome to Luxeloom!", "Hi there! I'm your Luxeloom assistant.",
                     "Welcome to Luxeloom!", "Hello! Ready to explore our handmade accessories?" >>,
     mission  |-> << "At Luxeloom, we believe in shopping with purpose!",
                     "Every purchase you make at Luxeloom directly supports Edhi Foundation!",
                     "Our mission is simple" >>,
     care     |-> << "Here's how to care for your Luxeloom tote bags" >>,
     ordering |-> << "To place an order, simply message us on WhatsApp",
                     "Ready to order? Send us a WhatsApp message" >>,
     thanks   |-> << "You're very welcome!", "Anytime!", "My pleasure!",
                     "You're welcome! Thanks for choosing Luxeloom!" >>,
     fallback |-> << "I'm not sure I understand that.", "I'm here to help with Luxeloom!",
                     "Let me help you!" >>]

\* a fresh LuxeloomChatbot (lines 56-58)
NewChatbot == [conversation_history |-> << >>]

(***************************************************************************)
(* Python's `needle in haystack` on strings.                               *)
(***************************************************************************)
Contains(haystack, needle) ==
    \E i \in 1..(Len(haystack) - Len(needle) + 1) :
        SubSeq(haystack, i, i + Len(needle) - 1) = needle

\* any(word in text for word in words)
AnyIn(words, text) == \E w \in 1..Len(words) : Contains(text, words[w])

(***************************************************************************)
(* difflib.get_close_matches(word, possibilities, n=1, cutoff=0.4), which  *)
(* find_product calls at line 108.  SequenceMatcher(a = candidate,         *)
(* b = word) without junk: the longest matching block, earliest in a and   *)
(* then earliest in b, then the same to its left and to its right.         *)
(***************************************************************************)
MatchAt(a, b, i, j, k) == SubSeq(a, i, i + k - 1) = SubSeq(b, j, j + k - 1)

MatchesAtI(a, b, i, k) == \E j \in 1..(Len(b) - k + 1) : MatchAt(a, b, i, j, k)

HasMatch(a, b, k) == \E i \in 1..(Len(a) - k + 1) : MatchesAtI(a, b, i, k)

\* the length of the longest common block, searched upwards from k
RECURSIVE LongestFrom(_, _, _)
LongestFrom(a, b, k) == IF HasMatch(a, b, k + 1) THEN LongestFrom(a, b, k + 1) ELSE k

\* the earliest start in a of a common block of length k
FirstI(a, b, k) ==
    CHOOSE i \in 1..(Len(a) - k + 1) :
        MatchesAtI(a, b, i, k) /\ \A x \in 1..(i - 1) : ~MatchesAtI(a, b, x, k)

\* the earliest start in b of the block a[i .. i+k-1]
FirstJ(a, b, i, k) ==
    CHOOSE j \in 1..(Len(b) - k + 1) :
        MatchAt(a, b, i, j, k) /\ \A y \in 1..(j - 1) : ~MatchAt(a, b, i, y, k)

BlockAt(a, b, i, k) == <<i, FirstJ(a, b, i, k), k>>

BlockOfLength(a, b, k) == IF k = 0 THEN <<1, 1, 0>> ELSE BlockAt(a, b, FirstI(a, b, k), k)

\* SequenceMatcher.find_longest_match: <<i, j, k>>, k = 0 when nothing matches
find_longest_match(a, b) == BlockOfLength(a, b, LongestFrom(a, b, 0))

\* the total size of SequenceMatcher.get_matching_blocks(): the longest block m,
\* then the blocks to its left and to its right
RECURSIVE matching_size(_, _)
RECURSIVE SizeAround(_, _, _)
SizeAround(a, b, m) ==
    IF m[3] = 0 THEN 0
    ELSE matching_size(SubSeq(a, 1, m[1] - 1), SubSeq(b, 1, m[2] - 1))
         + m[3]
         + matching_size(SubSeq(a, m[1] + m[3], Len(a)), SubSeq(b, m[2] + m[3], Len(b)))

matching_size(a, b) ==
    IF a = "" \/ b = "" THEN 0 ELSE SizeAround(a, b, find_longest_match(a, b))

\* SequenceMatcher.ratio() = 2.0 * M / T as the fraction <<2M, T>> (1.0 when T = 0)
ratio(a, b) ==
    IF Len(a) + Len(b) = 0 THEN <<1, 1>> ELSE <<2 * matching_size(a, b), Len(a) + Len(b)>>

\* fractions with positive denominators
FracGeq(x, y) == x[1] * y[2] >= y[1] * x[2]
FracEq(x, y) == x[1] * y[2] = y[1] * x[2]

cutoff == <<4, 10>>

\* Python's str comparison, on the characters the catalog keys are made of
CodeOrder == " 0123456789ABCDEFGHIJKLMNOPQRSTUVWXYZ_abcdefghijklmnopqrstuvwxyz"
Code(c) == CHOOSE i \in 1..Len(CodeOrder) : Char(CodeOrder, i) = c

RECURSIVE StrLess(_, _)
StrLess(x, y) ==
    IF y = "" THEN FALSE
    ELSE IF x = "" THEN TRUE
    ELSE IF Char(x, 1) = Char(y, 1) THEN StrLess(Tail(x), Tail(y))
    ELSE Code(Char(x, 1)) < Code(Char(y, 1))

\* (score, x) >= (score', x') as Python compares tuples
ScoredGeq(sp, xp, sq, xq) ==
    \/ ~FracGeq(sq, sp)
    \/ FracEq(sp, sq) /\ ~StrLess(xp, xq)

\* heapq.nlargest(1, result) over the candidates that reach the cutoff: the
\* largest score, and among equal scores the largest string
Nlargest1(possibilities, scores) ==
    IF \A p \in 1..Len(possibilities) : ~FracGeq(scores[p], cutoff) THEN << >>
    ELSE << possibilities[CHOOSE p \in 1..Len(possibilities) :
                /\ FracGeq(scores[p], cutoff)
                /\ \A q \in 1..Len(possibilities) :
                       FracGeq(scores[q], cutoff)
                           => ScoredGeq(scores[p], possibilities[p], scores[q], possibilities[q])] >>

get_close_matches(word, possibilities) ==
    Nlargest1(possibilities, [p \in 1..Len(possibilities) |-> ratio(possibilities[p], word)])

(***************************************************************************)
(* find_product (lines 97-112).                                            *)
(***************************************************************************)
product_names == [i \in 1..Len(product_data) |-> product_data[i].key]

ProductOf(key) ==
    product_data[CHOOSE i \in 1..Len(product_data) : product_data[i].key = key].value

\* lines 102-104: the first key, in dict order, that occurs in the query
direct_match(query_lower) ==
    IF \A i \in 1..Len(product_data) : ~Contains(query_lower, product_data[i].key) THEN << >>
    ELSE << product_data[CHOOSE i \in 1..Len(product_data) :
                /\ Contains(query_lower, product_data[i].key)
                /\ \A j \in 1..(i - 1) : ~Contains(query_lower, product_data[j].key)].key >>

\* lines 107-112: the fuzzy pass, given its matches
FuzzyPass(matches) ==
    IF matches /= << >> THEN [key |-> matches[1], pass |-> "fuzzy"]
    ELSE [key |-> "", pass |-> "none"]

\* lines 102-112, given the outcome of the direct pass
PassAfter(query_lower, direct) ==
    IF direct /= << >> THEN [key |-> direct[1], pass |-> "direct"]
    ELSE FuzzyPass(get_close_matches(query_lower, product_names))

PassOn(query_lower) == PassAfter(query_lower, direct_match(query_lower))

\* the key find_product returns the product of, and the pass that found it
find_product_pass(query) == PassOn(preprocess_text(query))

FoundProduct(found) == IF found.pass = "none" THEN None ELSE ProductOf(found.key)

find_product(query) == FoundProduct(find_product_pass(query))

(***************************************************************************)
(* handle_query (lines 114-157).  rnd is the draw of the random module:    *)
(* random.choice(seq) returns seq[rnd mod len(seq)].                       *)
(***************************************************************************)
choice(seq, rnd) == seq[(rnd % Len(seq)) + 1]

greeting_words == << "hello", "hi", "hey", "greetings", "good morning", "good afternoon" >>
thanks_words   == << "thanks", "thank you", "thx", "thankyou", "appreciate" >>
mission_words  == << "mission", "purpose", "about", "story", "edhi", "charity", "donate", "proceeds" >>
care_words     == << "care", "wash", "clean", "maintain", "instructions", "how to care" >>
ordering_words == << "order", "buy", "purchase", "how to buy", "how to order", "price", "cost", "where to buy" >>
listing_words  == << "products", "items", "collection", "what do you have", "what's available", "show me" >>

\* line 143: the product card of the ordering branch
order_card(product) ==
    product.name \o "\n\nPrice: " \o product.price \o " (Original: " \o product.original_price
    \o ") - " \o product.discount \o "\n\n" \o product.description
    \o "\n\nTo order, WhatsApp us at " \o product.whatsapp \o "!"

\* line 145: what follows the ordering template when no product is found
ordering_collection ==
    "\n\nOur current collection includes:\n- Snoopy Tote - PKR 2,125\n- Sunny Tote - PKR 2,125\n- Strawberry Miffi Tote - PKR 2,125\n\nAll with 15% OFF!"

\* line 150: the product card of a direct product mention
product_card(product) ==
    product.name \o "\n\nPrice: " \o product.price \o " (Original: " \o product.original_price
    \o ") - " \o product.discount \o "\n\n" \o product.description
    \o "\n\nTo order: WhatsApp +92 307 4674619"

\* line 154: the catalog summary
listing_response ==
    "Our Handmade Collection\n\n1. Snoopy Tote - PKR 2,125 (15% OFF)\n2. Sunny Tote - PKR 2,125 (15% OFF)\n3. Strawberry Miffi Tote - PKR 2,125 (15% OFF)"

\* lines 118-121: append the raw query, keep the last 2 * max_history entries
\* trim with the slice taken from the wrong end: history[:2 * max_history]
trim_oldest(history) ==
    IF Len(history) > max_history * 2 THEN SubSeq(history, 1, max_history * 2) ELSE history

trim(history) ==
    IF Len(history) > max_history * 2
    THEN SubSeq(history, Len(history) - max_history * 2 + 1, Len(history))
    ELSE history

add_to_history(history, query) == trim(Append(history, [role |-> "user", content |-> query]))

\* lines 139-157, product being what find_product(query) returns
RulesWithProduct(self, query_proc, rnd, product) ==
    IF AnyIn(ordering_words, query_proc)
    THEN IF product /= None THEN order_card(product)
         ELSE choice(responses.ordering, rnd) \o ordering_collection
    ELSE IF product /= None THEN product_card(product)
    ELSE IF AnyIn(listing_words, query_proc) THEN listing_response
    ELSE choice(responses.fallback, rnd)

\* rules with the mission check moved in front of the greeting check
rules_mission_first(self, query, query_proc, rnd) ==
    IF AnyIn(mission_words, query_proc) THEN choice(responses.mission, rnd)
    ELSE IF AnyIn(greeting_words, query_proc) THEN choice(responses.greeting, rnd)
    ELSE IF AnyIn(thanks_words, query_proc) THEN choice(responses.thanks, rnd)
    ELSE IF AnyIn(care_words, query_proc) THEN choice(responses.care, rnd)
    ELSE RulesWithProduct(self, query_proc, rnd, find_product(query))

\* rules that read the log: a repeated message is answered differently
rules_with_memory(self, query, query_proc, rnd) ==
    IF \E i \in 1..Len(self.conversation_history) :
           self.conversation_history[i].content = query
    THEN "You already asked that."
    ELSE IF AnyIn(greeting_words, query_proc) THEN choice(responses.greeting, rnd)
    ELSE IF AnyIn(thanks_words, query_proc) THEN choice(responses.thanks, rnd)
    ELSE IF AnyIn(mission_words, query_proc) THEN choice(responses.mission, rnd)
    ELSE IF AnyIn(care_words, query_proc) THEN choice(responses.care, rnd)
    ELSE RulesWithProduct(self, query_proc, rnd, find_product(query))

\* lines 123-157: the rule cascade
rules(self, query, query_proc, rnd) ==
    IF AnyIn(greeting_words, query_proc) THEN choice(responses.greeting, rnd)
    ELSE IF AnyIn(thanks_words, query_proc) THEN choice(responses.thanks, rnd)
    ELSE IF AnyIn(mission_words, query_proc) THEN choice(responses.mission, rnd)
    ELSE IF AnyIn(care_words, query_proc) THEN choice(responses.care, rnd)
    ELSE RulesWithProduct(self, query_proc, rnd, find_product(query))

\* handle_query with the greeting check, and its return, ahead of the append
handle_query_greeting_first(self, query, rnd) ==
    IF AnyIn(greeting_words, preprocess_text(query))
    THEN [self |-> self, response |-> choice(responses.greeting, rnd)]
    ELSE [self |-> [self EXCEPT !.conversation_history = add_to_history(@, query)],
          response |-> rules(self, query, preprocess_text(query), rnd)]

\* the chatbot after the call, and the string returned
handle_query(self, query, rnd) ==
    [self |-> [self EXCEPT !.conversation_history = add_to_history(@, query)],
     response |-> rules(self, query, preprocess_text(query), rnd)]

(***************************************************************************)
(* POST /api/chat (lines 167-186).  A request body is                      *)
(*   [kind |-> "absent"]               JSON object without "message"       *)
(*   [kind |-> "str", message |-> s]   "message" is the string s           *)
(*   [kind |-> "number"]               "message" is a JSON number: .strip()*)
(*                                     raises AttributeError (line 172)    *)
(* The result carries the HTTP status code and the JSON object; `queries`  *)
(* lists the arguments handle_query was called with.                       *)
(***************************************************************************)
\* lines 177-183, r being what handle_query(user_message) returns
ChatSuccess(user_message, r) ==
    [self |-> r.self, queries |-> << user_message >>, code |-> 200,
     json |-> [response |-> r.response, status |-> "success"]]

\* lines 174-183
ChatMessage(self, user_message, rnd) ==
    IF user_message = ""
    THEN [self |-> self, queries |-> << >>, code |-> 400,
          json |-> [error |-> "Message is required"]]
    ELSE ChatSuccess(user_message, handle_query(self, user_message, rnd))

\* chat without the .strip() of line 172
chat_unstripped(self, body, rnd) ==
    IF body.kind = "number"
    THEN [self |-> self, queries |-> << >>, code |-> 500,
          json |-> [error |-> "'int' object has no attribute 'strip'"]]
    ELSE ChatMessage(self, IF body.kind = "absent" THEN "" ELSE body.message, rnd)

chat(self, body, rnd) ==
    IF body.kind = "number"
    THEN [self |-> self, queries |-> << >>, code |-> 500,
          json |-> [error |-> "'int' object has no attribute 'strip'"]]
    ELSE ChatMessage(self, strip(IF body.kind = "absent" THEN "" ELSE body.message), rnd)

(***************************************************************************)
(* GET /api/products (lines 188-202).                                      *)
(***************************************************************************)
\* the loop without seen.add(p['name'])
RECURSIVE unique_from_unseen(_, _, _)
unique_from_unseen(products, i, seen) ==
    IF i > Len(products) THEN << >>
    ELSE IF products[i].name \notin seen
         THEN << products[i] >> \o unique_from_unseen(products, i + 1, seen)
         ELSE unique_from_unseen(products, i + 1, seen)

\* lines 194-199: the loop over products[i..], with the names seen so far
RECURSIVE unique_from(_, _, _)
unique_from(products, i, seen) ==
    IF i > Len(products) THEN << >>
    ELSE IF products[i].name \notin seen
         THEN << products[i] >> \o unique_from(products, i + 1, seen \cup {products[i].name})
         ELSE unique_from(products, i + 1, seen)

get_products ==
    LET products == [i \in 1..Len(product_data) |-> product_data[i].value]
    IN  [code |-> 200,
         json |-> [products |-> unique_from(products, 1, {}), status |-> "success"]]

(***************************************************************************)
(* Bounds of the model.                                                    *)
(***************************************************************************)
RandRange == 4       \* draws of the random module: 0 .. RandRange - 1
MaxRequests == 2     \* requests served in Spec
MaxCalls == 12       \* handle_query calls in SpecLog
MaxPairCalls == 2    \* handle_query calls on each instance in SpecPair
MaxTextLen == 3      \* length of the strings normalized in SpecNormalize
MaxPhrases == 2      \* phrases per message in SpecClassify
MaxPunct == 1        \* punctuation characters added to an alias in SpecFind

Draws == 0..(RandRange - 1)

Idle ==
    /\ chatbot = NewChatbot
    /\ other = NewChatbot
    /\ received = << >>
    /\ response = ""
    /\ otherResponse = ""
    /\ called = ""
    /\ output = ""
    /\ heap = << >>
    /\ threads = << >>
    /\ calls = << >>

(***************************************************************************)
(* Spec: the HTTP service, one request at a time.                          *)
(***************************************************************************)
Str(s) == [kind |-> "str", message |-> s]

Bodies ==
    { [kind |-> "absent"], [kind |-> "number"], Str(""), Str(" \t "),
      Str(" Hi! "), Str("thx"), Str("Your mission?"), Str("how to wash it"),
      Str("What is the price of the sunny tote?"), Str("how to buy"),
      Str("Miffy"), Str("your collection"), Str("ok") }

Init == Idle /\ input = [kind |-> "absent"]

ChatResult(r) ==
    /\ chatbot' = r.self
    /\ received' = received \o r.queries
    /\ response' = [code |-> r.code, json |-> r.json]

Chat(body, rnd) ==
    /\ Len(received) < MaxRequests
    /\ ChatResult(chat(chatbot, body, rnd))
    /\ called' = "chat"
    /\ input' = body
    /\ UNCHANGED <<other, otherResponse, output>>
    /\ UNCHANGED conc

GetProducts ==
    /\ response' = get_products
    /\ called' = "get_products"
    /\ UNCHANGED <<chatbot, other, received, otherResponse, input, output>>
    /\ UNCHANGED conc

Next ==
    \/ \E body \in Bodies : \E rnd \in Draws : Chat(body, rnd)
    \/ GetProducts

Spec == Init /\ [][Next]_vars

(***************************************************************************)
(* SpecLog: handle_query called over and over on one instance.             *)
(***************************************************************************)
LogQueries == { "hi", "Thx!" }

InitLog == Idle /\ input = ""

HandleQueryResult(r) ==
    /\ chatbot' = r.self
    /\ response' = r.response

HandleQuery(query, rnd) ==
    /\ Len(received) < MaxCalls
    /\ HandleQueryResult(handle_query(chatbot, query, rnd))
    /\ received' = Append(received, query)
    /\ called' = "handle_query"
    /\ input' = query
    /\ UNCHANGED <<other, otherResponse, output>>
    /\ UNCHANGED conc

NextLog == \E query \in LogQueries : \E rnd \in Draws : HandleQuery(query, rnd)

SpecLog == InitLog /\ [][NextLog]_vars

(***************************************************************************)
(* SpecPair: two instances, called separately and then with the same       *)
(* message and the same draw.                                              *)
(***************************************************************************)
PairQueries == { "how to wash it", "order" }

InitPair == Idle /\ input = ""

CallChatbot(query, rnd) ==
    /\ Len(chatbot.conversation_history) < MaxPairCalls
    /\ HandleQueryResult(handle_query(chatbot, query, rnd))
    /\ called' = "chatbot.handle_query"
    /\ input' = query
    /\ UNCHANGED <<other, received, otherResponse, output>>
    /\ UNCHANGED conc

OtherResult(r) ==
    /\ other' = r.self
    /\ otherResponse' = r.response

CallOther(query, rnd) ==
    /\ Len(other.conversation_history) < MaxPairCalls
    /\ OtherResult(handle_query(other, query, rnd))
    /\ called' = "other.handle_query"
    /\ input' = query
    /\ UNCHANGED <<chatbot, received, response, output>>
    /\ UNCHANGED conc

CallBoth(query, rnd) ==
    /\ Len(chatbot.conversation_history) <= MaxPairCalls
    /\ Len(other.conversation_history) <= MaxPairCalls
    /\ HandleQueryResult(handle_query(chatbot, query, rnd))
    /\ OtherResult(handle_query(other, query, rnd))
    /\ called' = "both"
    /\ input' = query
    /\ UNCHANGED <<received, output>>
    /\ UNCHANGED conc

NextPair ==
    \E query \in PairQueries : \E rnd \in Draws :
        \/ CallChatbot(query, rnd)
        \/ CallOther(query, rnd)
        \/ CallBoth(query, rnd)

SpecPair == InitPair /\ [][NextPair]_vars

(***************************************************************************)
(* SpecNormalize: preprocess_text applied to a string, then to its result. *)
(***************************************************************************)
TextAlphabet == { "a", "B", " ", "!", "_" }

\* the strings over TextAlphabet of length at most n
RECURSIVE Texts(_)
Texts(n) ==
    IF n = 0 THEN { "" }
    ELSE Texts(n - 1) \cup { s \o c : s \in Texts(n - 1), c \in TextAlphabet }

InitNormalize == Idle /\ input \in Texts(MaxTextLen)

Normalize ==
    /\ called = ""
    /\ output' = preprocess_text(input)
    /\ called' = "preprocess_text"
    /\ UNCHANGED <<chatbot, other, received, response, otherResponse, input>>
    /\ UNCHANGED conc

NormalizeAgain ==
    /\ called = "preprocess_text"
    /\ response' = preprocess_text(output)
    /\ called' = "preprocess_text twice"
    /\ UNCHANGED <<chatbot, other, received, otherResponse, input, output>>
    /\ UNCHANGED conc

NextNormalize == Normalize \/ NormalizeAgain

SpecNormalize == InitNormalize /\ [][NextNormalize]_vars

(***************************************************************************)
(* SpecClassify: handle_query on a fresh instance, over messages made of   *)
(* keywords of every rule.                                                 *)
(***************************************************************************)
Phrases ==
    { "Hi!", "thx", "mission", "care", "order", "Sunny Tote", "miffy", "snoopy",
      "this", "ok",
      "products", "items", "collection", "what do you have", "what's available",
      "show me" }

\* one to n phrases, separated by single spaces
RECURSIVE Messages(_)
Messages(n) ==
    IF n = 1 THEN Phrases
    ELSE Messages(n - 1) \cup { m \o " " \o p : m \in Messages(n - 1), p \in Phrases }

InitClassify == Idle /\ input \in Messages(MaxPhrases)

Classify(rnd) ==
    /\ called = ""
    /\ HandleQuery(input, rnd)

NextClassify == \E rnd \in Draws : Classify(rnd)

SpecClassify == InitClassify /\ [][NextClassify]_vars

(***************************************************************************)
(* SpecFind: find_product on a catalog key whose letters are partly        *)
(* upper-cased and to which punctuation is added.                          *)
(***************************************************************************)
PunctChars == { "!", "'", "-", "_" }

UpperChar(c) ==
    IF InString(c, LowerLetters)
    THEN Char(UpperLetters, CHOOSE i \in 1..Len(LowerLetters) : Char(LowerLetters, i) = c)
    ELSE c

RECURSIVE upper(_)
upper(s) == IF s = "" THEN "" ELSE UpperChar(Char(s, 1)) \o upper(Tail(s))

\* s with the characters i..j in upper case
UpperRun(s, i, j) == SubSeq(s, 1, i - 1) \o upper(SubSeq(s, i, j)) \o SubSeq(s, j + 1, Len(s))

\* s as it is, with its first j characters, or its last ones from i on, in upper case
CaseVariants(s) ==
    { s } \cup { UpperRun(s, 1, j) : j \in 1..Len(s) }
          \cup { UpperRun(s, i, Len(s)) : i \in 1..Len(s) }

\* the strings of S with at most n characters of PunctChars added anywhere
RECURSIVE WithPunct(_, _)
WithPunct(S, n) ==
    IF n = 0 THEN S
    ELSE WithPunct(S, n - 1)
         \cup UNION { { SubSeq(s, 1, p) \o c \o SubSeq(s, p + 1, Len(s)) :
                            p \in 0..Len(s), c \in PunctChars } :
                      s \in WithPunct(S, n - 1) }

\* every catalog key with the ways of writing it, at most n characters added
AliasQueries(n) ==
    UNION { { [alias |-> product_data[i].key, text |-> t] :
                t \in WithPunct(CaseVariants(product_data[i].key), n) } :
            i \in 1..Len(product_data) }

InitFind == Idle /\ input \in AliasQueries(MaxPunct)

FindProduct ==
    /\ called = ""
    /\ response' = find_product(input.text)
    /\ output' = find_product_pass(input.text).pass
    /\ called' = "find_product"
    /\ UNCHANGED <<chatbot, other, received, otherResponse, input>>
    /\ UNCHANGED conc

NextFind == FindProduct

SpecFind == InitFind /\ [][NextFind]_vars

(***************************************************************************)
(* SpecConc: requests served by threads of one process (app.run, line 209, *)
(* starts a threaded server), all on the instance of line 160.  A thread   *)
(* switch can fall between any two bytecodes, so lines 119-121 are         *)
(*   119  load self.conversation_history ; call .append(entry)             *)
(*   120  load self.conversation_history ; len(...) > 2 * max_history      *)
(*   121  load self.conversation_history ; slice [-2 * max_history:] ;     *)
(*        store self.conversation_history                                  *)
(* A list is an object: chatbot.conversation_history is the identity of    *)
(* one, heap maps identities to contents, and objects nothing refers to    *)
(* are dropped.  The service starts after up to 2 * max_history requests   *)
(* served one after another, the n-th with the message "msg n".            *)
(***************************************************************************)
MaxConcCalls == 3    \* requests the threads serve
NumThreads == 2

Threads == 1..NumThreads

\* str(n) for n >= 0
RECURSIVE Decimal(_)
Decimal(n) ==
    IF n < 10 THEN Char(Digits, n + 1) ELSE Decimal(n \div 10) \o Char(Digits, (n % 10) + 1)

Message(n) == "msg " \o Decimal(n)

NoRef == 0

IdleThread == [pc |-> "idle", query |-> "", ref |-> NoRef, tmp |-> << >>]

\* the calls of threads that have returned
Finished == Len(calls) - Cardinality({ t \in Threads : threads[t].pc /= "idle" })

\* the list the chatbot's attribute refers to
SharedHistory == heap[chatbot.conversation_history]

\* the objects still referred to, by the attribute or by a thread's local
Collect(h, attr, thr) ==
    [id \in { i \in DOMAIN h : i = attr \/ \E t \in Threads : thr[t].ref = i } |-> h[id]]

NewId(h) == CHOOSE id \in 1..(Cardinality(DOMAIN h) + 1) : id \notin DOMAIN h

InitConc ==
    /\ other = NewChatbot
    /\ received = << >>
    /\ response = ""
    /\ otherResponse = ""
    /\ called = ""
    /\ input = ""
    /\ output = ""
    /\ chatbot = [conversation_history |-> 1]
    /\ threads = [t \in Threads |-> IdleThread]
    /\ \E served \in 0..(2 * max_history) :
           /\ heap = (1 :> [i \in 1..served |-> [role |-> "user", content |-> Message(i)]])
           /\ calls = [i \in 1..served |-> [query |-> Message(i), finished_before |-> i - 1]]

ThreadStep(t, thread, h, attr) ==
    /\ threads' = [threads EXCEPT ![t] = thread]
    /\ chatbot' = [chatbot EXCEPT !.conversation_history = attr]
    /\ heap' = Collect(h, attr, [threads EXCEPT ![t] = thread])
    /\ UNCHANGED <<other, otherResponse, called, input, output>>

\* chat() takes the request and calls handle_query (lines 171-178, 116)
Begin(t) ==
    /\ threads[t].pc = "idle"
    /\ Len(received) < MaxConcCalls
    /\ received' = Append(received, Message(Len(calls) + 1))
    /\ calls' = Append(calls, [query |-> Message(Len(calls) + 1), finished_before |-> Finished])
    /\ ThreadStep(t, [threads[t] EXCEPT !.pc = "append_load", !.query = Message(Len(calls) + 1)],
                  heap, chatbot.conversation_history)
    /\ UNCHANGED response

\* line 119: self.conversation_history is loaded
LoadForAppend(t) ==
    /\ threads[t].pc = "append_load"
    /\ ThreadStep(t, [threads[t] EXCEPT !.pc = "append", !.ref = chatbot.conversation_history],
                  heap, chatbot.conversation_history)
    /\ UNCHANGED <<received, calls, response>>

\* line 119: .append(...) on the list loaded
AppendEntry(t) ==
    /\ threads[t].pc = "append"
    /\ ThreadStep(t, [threads[t] EXCEPT !.pc = "len_load", !.ref = NoRef],
                  [heap EXCEPT ![threads[t].ref] =
                       Append(@, [role |-> "user", content |-> threads[t].query])],
                  chatbot.conversation_history)
    /\ UNCHANGED <<received, calls, response>>

\* line 120: self.conversation_history is loaded
LoadForLen(t) ==
    /\ threads[t].pc = "len_load"
    /\ ThreadStep(t, [threads[t] EXCEPT !.pc = "len", !.ref = chatbot.conversation_history],
                  heap, chatbot.conversation_history)
    /\ UNCHANGED <<received, calls, response>>

\* line 120: len(...) > self.max_history * 2
CheckLen(t) ==
    /\ threads[t].pc = "len"
    /\ ThreadStep(t, [threads[t] EXCEPT
                          !.pc = IF Len(heap[threads[t].ref]) > max_history * 2
                                 THEN "slice_load" ELSE "rules",
                          !.ref = NoRef],
                  heap, chatbot.conversation_history)
    /\ UNCHANGED <<received, calls, response>>

\* line 121: self.conversation_history is loaded
LoadForSlice(t) ==
    /\ threads[t].pc = "slice_load"
    /\ ThreadStep(t, [threads[t] EXCEPT !.pc = "slice", !.ref = chatbot.conversation_history],
                  heap, chatbot.conversation_history)
    /\ UNCHANGED <<received, calls, response>>

\* line 121: [-self.max_history * 2:] makes a new list of the list loaded
Slice(t) ==
    /\ threads[t].pc = "slice"
    /\ ThreadStep(t, [threads[t] EXCEPT
                          !.pc = "store",
                          !.tmp = SubSeq(heap[threads[t].ref],
                                         Len(heap[threads[t].ref]) - max_history * 2 + 1,
                                         Len(heap[threads[t].ref])),
                          !.ref = NoRef],
                  heap, chatbot.conversation_history)
    /\ UNCHANGED <<received, calls, response>>

\* line 121: self.conversation_history = the new list
Store(t) ==
    /\ threads[t].pc = "store"
    /\ ThreadStep(t, [threads[t] EXCEPT !.pc = "rules", !.tmp = << >>],
                  (NewId(heap) :> threads[t].tmp) @@ heap, NewId(heap))
    /\ UNCHANGED <<received, calls, response>>

\* lines 123-157, and chat() returns
Return(t, rnd) ==
    /\ threads[t].pc = "rules"
    /\ response' = rules([conversation_history |-> SharedHistory], threads[t].query,
                         preprocess_text(threads[t].query), rnd)
    /\ ThreadStep(t, IdleThread, heap, chatbot.conversation_history)
    /\ UNCHANGED <<received, calls>>

NextConc ==
    \E t \in Threads :
        \/ Begin(t)
        \/ LoadForAppend(t)
        \/ AppendEntry(t)
        \/ LoadForLen(t)
        \/ CheckLen(t)
        \/ LoadForSlice(t)
        \/ Slice(t)
        \/ Store(t)
        \/ \E rnd \in Draws : Return(t, rnd)

SpecConc == InitConc /\ [][NextConc]_vars

(***************************************************************************)
(* The properties.                                                         *)
(***************************************************************************)
Range(seq) == { seq[i] : i \in 1..Len(seq) }

Entry(query) == [role |-> "user", content |-> query]

History == chatbot.conversation_history

\* C1: after any number of handle_query calls the log holds at most
\* 2 * max_history = 10 entries, and after more than 10 calls it holds the 10
\* most recent queries in the order they were received.
C1_LogHoldsMostRecent ==
    /\ Len(History) <= 2 * max_history
    /\ Len(received) > 2 * max_history
           => History = [i \in 1..(2 * max_history) |->
                             Entry(received[Len(received) - 2 * max_history + i])]

\* twelve calls were made and the log holds two different queries
C1_Witness ==
    /\ Len(received) = 2 * max_history + 2
    /\ Len(History) = 2 * max_history
    /\ History[1].content /= History[2 * max_history].content
    /\ History[2 * max_history].content = received[Len(received)]

\* the eight rules in the order of the claim
RuleOrder == << "greeting", "thanks", "mission", "care", "ordering", "product", "listing", "fallback" >>

\* the condition of each rule, on the normalized query and on the product
\* find_product returns for the query
HoldsFor(rule, query_proc, product) ==
    CASE rule = "greeting" -> AnyIn(greeting_words, query_proc)
      [] rule = "thanks"   -> AnyIn(thanks_words, query_proc)
      [] rule = "mission"  -> AnyIn(mission_words, query_proc)
      [] rule = "care"     -> AnyIn(care_words, query_proc)
      [] rule = "ordering" -> AnyIn(ordering_words, query_proc)
      [] rule = "product"  -> product /= None
      [] rule = "listing"  -> AnyIn(listing_words, query_proc)
      [] rule = "fallback" -> TRUE

FirstRuleFor(query_proc, product) ==
    RuleOrder[CHOOSE i \in 1..Len(RuleOrder) :
                  /\ HoldsFor(RuleOrder[i], query_proc, product)
                  /\ \A j \in 1..(i - 1) : ~HoldsFor(RuleOrder[j], query_proc, product)]

\* the responses a rule can give
RuleResponses(rule, product) ==
    CASE rule = "greeting" -> Range(responses.greeting)
      [] rule = "thanks"   -> Range(responses.thanks)
      [] rule = "mission"  -> Range(responses.mission)
      [] rule = "care"     -> Range(responses.care)
      [] rule = "ordering" ->
             IF product /= None THEN { order_card(product) }
             ELSE { t \o ordering_collection : t \in Range(responses.ordering) }
      [] rule = "product"  -> { product_card(product) }
      [] rule = "listing"  -> { listing_response }
      [] rule = "fallback" -> Range(responses.fallback)

AnsweredByFirstRule(answer, query_proc, product) ==
    /\ answer \in RuleResponses(FirstRuleFor(query_proc, product), product)
    /\ \A i \in 1..Len(RuleOrder) :
           RuleOrder[i] /= FirstRuleFor(query_proc, product)
               => answer \notin RuleResponses(RuleOrder[i], product)
    /\ (AnyIn(greeting_words, query_proc) /\ AnyIn(mission_words, query_proc))
           => answer \in Range(responses.greeting) /\ answer \notin Range(responses.mission)

\* C2: the response of handle_query belongs to the first rule, in the order
\* greeting, thanks, mission, care, ordering, product, listing, fallback, whose
\* condition holds for the message, and to no other rule; a message with a
\* greeting keyword and a mission keyword gets a greeting response and no
\* mission response.
C2_FirstMatchingRuleWins ==
    called = "handle_query"
        => AnsweredByFirstRule(response, preprocess_text(input), find_product(input))

\* a message with a greeting keyword and a mission keyword was answered
C2_Witness ==
    /\ called = "handle_query"
    /\ input = "Hi! mission"
    /\ response \in Range(responses.greeting)

IsBlank(body) == body.kind = "absent" \/ (body.kind = "str" /\ strip(body.message) = "")

\* C3: POST /api/chat with the message absent or empty after trimming answers
\* 400 with the error "Message is required", calls handle_query with nothing
\* and leaves the log unchanged; with any other string as the message it
\* answers 200 with status "success" and what handle_query returns for the
\* trimmed message.
C3_ChatValidatesMessage ==
    [][ called' = "chat" =>
          /\ IsBlank(input') =>
                 /\ response' = [code |-> 400, json |-> [error |-> "Message is required"]]
                 /\ received' = received
                 /\ chatbot' = chatbot
          /\ (input'.kind = "str" /\ ~IsBlank(input')) =>
                 /\ response'.code = 200
                 /\ response'.json.status = "success"
                 /\ received' = Append(received, strip(input'.message))
                 /\ \E rnd \in Draws :
                        response'.json.response
                            = handle_query(chatbot, strip(input'.message), rnd).response
      ]_vars

\* a message of whitespace only was refused after an earlier message was logged
C3_Witness ==
    /\ called = "chat"
    /\ input = Str(" \t ")
    /\ response.code = 400
    /\ Len(History) = 1

\* C4: when threads run handle_query concurrently, the log holds at most
\* 2 * max_history entries once all calls have returned, and is then what the
\* calls give when run one after another in an order that keeps a call after
\* every call that returned before it began: an entry is missing only if at
\* least 2 * max_history calls did not return before its call began.
C4_LogAccessSerialized ==
    (\A t \in Threads : threads[t].pc = "idle") =>
        /\ Len(SharedHistory) <= 2 * max_history
        /\ \A c \in 1..Len(calls) :
               \/ \E i \in 1..Len(SharedHistory) : SharedHistory[i].content = calls[c].query
               \/ Len(calls) - 1 - calls[c].finished_before >= 2 * max_history

\* C5: preprocess_text is idempotent: normalizing a normalized string returns it
\* unchanged.
C5_Idempotent == called = "preprocess_text twice" => response = output

\* C6: find_product, called with a catalog key in any letter case and with
\* punctuation added, returns the product stored under that key, from the
\* exact-substring pass.
C6_AliasFoundByDirectPass ==
    called = "find_product" => response = ProductOf(input.alias) /\ output = "direct"

CatalogValues == [i \in 1..Len(product_data) |-> product_data[i].value]

\* the catalog positions that hold the first entry of their name
FirstOfName == { i \in 1..Len(product_data) :
                     \A j \in 1..(i - 1) : CatalogValues[j].name /= CatalogValues[i].name }

\* C7: GET /api/products returns no two entries of the same name: exactly the
\* first catalog entry of every name, in catalog order, which makes three
\* products, Strawberry Miffi Tote among them once.
C7_ProductsUniqueByName ==
    called = "get_products" =>
        LET products == response.json.products
        IN  /\ \A i, j \in 1..Len(products) : products[i].name = products[j].name => i = j
            /\ Len(products) = Cardinality(FirstOfName)
            /\ \A k \in 1..Len(products) :
                   products[k] = CatalogValues[CHOOSE i \in FirstOfName :
                                                   Cardinality({ j \in FirstOfName : j <= i }) = k]
            /\ Len(products) = 3
            /\ Cardinality({ i \in 1..Len(products) : products[i].name = "Strawberry Miffi Tote" }) = 1

\* the product list was returned
C7_Witness ==
    /\ called = "get_products"
    /\ response.code = 200
    /\ Len(response.json.products) = 3

\* C8: every call of handle_query adds the raw query to the log exactly once,
\* whichever rule answers: the log after the call is the log before it with
\* that one entry at the end (less its oldest entry when it was full).
C8_OneAppendPerCall ==
    [][ Len(received') = Len(received) + 1 =>
          IF Len(History) < 2 * max_history
          THEN chatbot'.conversation_history = Append(History, Entry(received'[Len(received')]))
          ELSE chatbot'.conversation_history
                   = Append(Tail(History), Entry(received'[Len(received')]))
      ]_vars

\* a greeting and then a message no rule matches were both logged
C8_Witness ==
    /\ called = "chat"
    /\ response.code = 200
    /\ response.json.response \in Range(responses.fallback)
    /\ History = << Entry("Hi!"), Entry("ok") >>

\* C9: two instances whose logs differ return the same response to the same
\* message under the same draw.
C9_ResponseIgnoresLog == called = "both" => response = otherResponse

\* both instances answered a message they had logged differently often before
C9_Witness ==
    /\ called = "both"
    /\ Len(chatbot.conversation_history) /= Len(other.conversation_history)
    /\ \E i \in 1..(Len(other.conversation_history) - 1) :
           other.conversation_history[i].content = input
    /\ \A i \in 1..(Len(chatbot.conversation_history) - 1) :
           chatbot.conversation_history[i].content /= input
    /\ response = otherResponse

\* C10: a message that contains one of the six listing phrases as written, and
\* for which none of the rules greeting .. product holds, gets the catalog
\* summary.
C10_ListingPhrasesList ==
    ( /\ called = "handle_query"
      /\ \E w \in 1..Len(listing_words) : Contains(input, listing_words[w])
      /\ \A i \in 1..6 : ~HoldsFor(RuleOrder[i], preprocess_text(input), find_product(input)) )
        => response = listing_response

=============================================================================
